---- MODULE Spec2Model ----
(***************************************************************************)
(* Model of the workflow execution engine of ai_canvas:                    *)
(*   - the relational store (graphs, nodes, edges, conversations),         *)
(*   - TopologyService (detect_cycles, compute_topological_sort),          *)
(*   - WorkflowService.execute_workflow and the AI providers' process_node.*)
(* Queries without ORDER BY return their rows in an order the store        *)
(* chooses; every such query takes its row order as an input.              *)
(***************************************************************************)
EXTENDS Integers, Sequences, FiniteSets, TLC

\* ------------------------------------------------------------------ bounds
MaxNodes == 3
MaxGraphs == 2
TopoMaxEdges == 3
ExecMaxEdges == 2
MaxRuns == 2
MaxFaults == 1

\* ------------------------------------------------------------ value spaces
AllNodeIds == <<"a", "b", "c", "d", "e">>

Min(x, y) == IF x < y THEN x ELSE y

NodeIds == {AllNodeIds[i] : i \in 1..Min(MaxNodes, Len(AllNodeIds))}

GraphIds == 1..MaxGraphs

Range(s) == {s[i] : i \in DOMAIN s}

\* The row orders an unordered query over the row set S can return.
Rows(S) ==
    {r \in [1..Cardinality(S) -> S] : \A x \in S : \E i \in DOMAIN r : r[i] = x}

\* ------------------------------------------------------------------- state
VARIABLES
    graphs,         \* ids of the stored Graph rows
    nodes,          \* Node rows: id -> [graph_id, backend]
    edges,          \* Edge rows: id -> [source_node_id, target_node_id, edge_type]
    conversations,  \* Conversation rows in id order: [node_id, messages]
    analysis,       \* result of the last TopologyService call
    prevSort,       \* result of the compute_topological_sort call before it
    run,            \* the execute_workflow call in progress or just returned
    runAtStart,     \* conversation store when that call started
    nruns,          \* execute_workflow calls started so far
    nfaults,        \* storage faults injected so far
    reply,          \* what the last edge operation of the CRUD services returned
    threads,        \* the execute_workflow calls of concurrently served requests
    stream          \* the streamed chat response being generated

vars == <<graphs, nodes, edges, conversations, analysis, prevSort,
          run, runAtStart, nruns, nfaults, reply, threads, stream>>

\* ----------------------------------------------------------- store queries
\* Edge.id as EdgeRepository.create derives it.
EdgeId(source_id, target_id) == source_id \o "-" \o target_id

\* Node ids of NodeRepository.get_by_graph(graph_id), as a set.
get_by_graph(graph_id) == {n \in DOMAIN nodes : nodes[n].graph_id = graph_id}

\* Edge ids of EdgeRepository.get_edges_for_graph(graph_id), as a set:
\* every edge whose source is a node of the graph.
get_edges_for_graph(graph_id) ==
    {e \in DOMAIN edges : edges[e].source_node_id \in get_by_graph(graph_id)}

\* ------------------------------------------------------- TopologyService
\* adjacency_list of detect_cycles / compute_topological_sort, built from the
\* node rows and the edge rows in the order the queries returned them.
RECURSIVE AdjTargets(_, _, _)
AdjTargets(edgeRows, i, n) ==
    IF i > Len(edgeRows) THEN <<>>
    ELSE IF edges[edgeRows[i]].source_node_id = n
         THEN <<edges[edgeRows[i]].target_node_id>> \o AdjTargets(edgeRows, i + 1, n)
         ELSE AdjTargets(edgeRows, i + 1, n)

adjacency_list(nodeRows, edgeRows) ==
    [n \in Range(nodeRows) |-> AdjTargets(edgeRows, 1, n)]

\* adjacency_list.get(node_id, [])
AdjGet(adj, node_id) == IF node_id \in DOMAIN adj THEN adj[node_id] ELSE <<>>

\* path.index(x): position of the first occurrence.
Index(path, x) == CHOOSE i \in DOMAIN path :
    path[i] = x /\ \A j \in DOMAIN path : path[j] = x => i <= j

\* find_cycles: the state threaded through the recursion is the shared
\* visited set and the shared cycles list; path and path_set are copied into
\* each recursive call.
RECURSIVE find_cycles(_, _, _, _, _, _)
RECURSIVE find_cycles_loop(_, _, _, _, _, _, _)

\* find_cycles_loop without "cycle.append(neighbor)".
find_cycles_loop_unclosed(adj, node_id, i, visited, path, path_set, cycles) ==
    LET nbrs == AdjGet(adj, node_id) IN
    IF i > Len(nbrs) THEN [visited |-> visited, cycles |-> cycles]
    ELSE LET neighbor == nbrs[i] IN
         IF neighbor \notin visited
         THEN LET r == find_cycles(adj, neighbor, visited, path, path_set, cycles)
              IN  find_cycles_loop(adj, node_id, i + 1, r.visited, path, path_set, r.cycles)
         ELSE IF neighbor \in path_set
         THEN LET cycle == SubSeq(path, Index(path, neighbor), Len(path))
              IN  find_cycles_loop(adj, node_id, i + 1, visited, path, path_set,
                                   Append(cycles, cycle))
         ELSE find_cycles_loop(adj, node_id, i + 1, visited, path, path_set, cycles)

find_cycles_loop(adj, node_id, i, visited, path, path_set, cycles) ==
    LET nbrs == AdjGet(adj, node_id) IN
    IF i > Len(nbrs) THEN [visited |-> visited, cycles |-> cycles]
    ELSE LET neighbor == nbrs[i] IN
         IF neighbor \notin visited
         THEN LET r == find_cycles(adj, neighbor, visited, path, path_set, cycles)
              IN  find_cycles_loop(adj, node_id, i + 1, r.visited, path, path_set, r.cycles)
         ELSE IF neighbor \in path_set
         THEN LET cycle == Append(SubSeq(path, Index(path, neighbor), Len(path)), neighbor)
              IN  find_cycles_loop(adj, node_id, i + 1, visited, path, path_set,
                                   Append(cycles, cycle))
         ELSE find_cycles_loop(adj, node_id, i + 1, visited, path, path_set, cycles)

\* find_cycles without "path_set.add(node_id)".
find_cycles_no_path_set(adj, node_id, visited, path, path_set, cycles) ==
    find_cycles_loop(adj, node_id, 1, visited \cup {node_id},
                     Append(path, node_id), path_set, cycles)

find_cycles(adj, node_id, visited, path, path_set, cycles) ==
    find_cycles_loop(adj, node_id, 1, visited \cup {node_id},
                     Append(path, node_id), path_set \cup {node_id}, cycles)

\* The "Run DFS from each node" loop of detect_cycles.
RECURSIVE detect_cycles_loop(_, _, _, _, _)
detect_cycles_loop(adj, nodeRows, i, all_visited, cycles) ==
    IF i > Len(nodeRows) THEN cycles
    ELSE IF nodeRows[i] \notin all_visited
         THEN LET r == find_cycles(adj, nodeRows[i], all_visited, <<>>, {}, cycles)
              IN  detect_cycles_loop(adj, nodeRows, i + 1, r.visited, r.cycles)
         ELSE detect_cycles_loop(adj, nodeRows, i + 1, all_visited, cycles)

detect_cycles(nodeRows, edgeRows) ==
    LET cycles == detect_cycles_loop(adjacency_list(nodeRows, edgeRows),
                                     nodeRows, 1, {}, <<>>)
    IN  [has_cycle |-> Len(cycles) > 0, cycles |-> cycles]

\* dfs of compute_topological_sort: the state threaded through the recursion
\* is the visited map (as a set) and the result list.
RECURSIVE dfs(_, _, _, _)
RECURSIVE dfs_loop(_, _, _, _, _)

\* dfs with "result.append(node_id)" in place of "result.insert(0, node_id)".
dfs_loop_append(adj, node_id, i, visited, result) ==
    LET nbrs == AdjGet(adj, node_id) IN
    IF i > Len(nbrs) THEN [visited |-> visited, result |-> Append(result, node_id)]
    ELSE IF nbrs[i] \notin visited
         THEN LET r == dfs(adj, nbrs[i], visited, result)
              IN  dfs_loop(adj, node_id, i + 1, r.visited, r.result)
         ELSE dfs_loop(adj, node_id, i + 1, visited, result)

dfs_loop(adj, node_id, i, visited, result) ==
    LET nbrs == AdjGet(adj, node_id) IN
    IF i > Len(nbrs) THEN [visited |-> visited, result |-> <<node_id>> \o result]
    ELSE IF nbrs[i] \notin visited
         THEN LET r == dfs(adj, nbrs[i], visited, result)
              IN  dfs_loop(adj, node_id, i + 1, r.visited, r.result)
         ELSE dfs_loop(adj, node_id, i + 1, visited, result)

dfs(adj, node_id, visited, result) ==
    dfs_loop(adj, node_id, 1, visited \cup {node_id}, result)

RECURSIVE topological_sort_loop(_, _, _, _, _)
topological_sort_loop(adj, nodeRows, i, visited, result) ==
    IF i > Len(nodeRows) THEN result
    ELSE IF nodeRows[i] \notin visited
         THEN LET r == dfs(adj, nodeRows[i], visited, result)
              IN  topological_sort_loop(adj, nodeRows, i + 1, r.visited, r.result)
         ELSE topological_sort_loop(adj, nodeRows, i + 1, visited, result)

\* compute_topological_sort: cycle_detection is what its detect_cycles call
\* returned, nodeRows and edgeRows are the rows it then read itself.
\* Optional[List[str]] is the record [is_none, order]; is_none stands for None.
compute_topological_sort(cycle_detection, nodeRows, edgeRows) ==
    IF cycle_detection.has_cycle
    THEN [is_none |-> TRUE, order |-> <<>>]
    ELSE [is_none |-> FALSE,
          order |-> topological_sort_loop(adjacency_list(nodeRows, edgeRows),
                                          nodeRows, 1, {}, <<>>)]

\* What detect_cycles(graph_id) can return, over the row orders of its queries.
DetectCyclesResults(graph_id) ==
    {detect_cycles(nodeRows, edgeRows) :
        nodeRows \in Rows(get_by_graph(graph_id)),
        edgeRows \in Rows(get_edges_for_graph(graph_id))}

\* What compute_topological_sort(graph_id) can return.
TopologicalSortResults(graph_id) ==
    {compute_topological_sort(cd, nodeRows, edgeRows) :
        cd \in DetectCyclesResults(graph_id),
        nodeRows \in Rows(get_by_graph(graph_id)),
        edgeRows \in Rows(get_edges_for_graph(graph_id))}

\* --------------------------------------------------- bounded sets of stores
NoAnalysis ==
    [op |-> "none", graph_id |-> 0, has_cycle |-> FALSE, cycles |-> <<>>,
     is_none |-> FALSE, order |-> <<>>, node_id |-> "", depth |-> 0]

NoEdge == [source_node_id |-> "", target_node_id |-> "", edge_type |-> ""]

\* reply.args are the arguments of the call, reply.edge the Edge row it
\* returned (NoEdge for None), reply.ok the bool returned by a delete,
\* reply.raised whether the call raised.
NoReply ==
    [op |-> "none", args |-> NoEdge, id |-> "", edge |-> NoEdge, ok |-> FALSE,
     raised |-> FALSE]

NoRun ==
    [pc |-> "idle", graph_id |-> 0, execution_order |-> <<>>, idx |-> 0,
     results |-> <<>>, calls |-> <<>>, contexts |-> <<>>, failed |-> {},
     histories |-> <<>>, error |-> ""]

\* The requests served at the same time, each by a thread of its own.
MaxThreads == 2

\* No request is being served: first is what the get_by_node query of the
\* current node returned to the thread, once it has made it.
NoThreads == [t \in 1..MaxThreads |-> [run |-> NoRun, queried |-> FALSE, first |-> <<>>]]

\* No response is being streamed.  lines: the lines of the provider's
\* response; pos: the line the generator is at; full_content: its accumulator;
\* forwarded: the content chunks yielded to the client; stored: the assistant
\* messages it has stored.
NoStream ==
    [pc |-> "idle", conversation_id |-> 0, lines |-> <<>>, pos |-> 0,
     full_content |-> "", forwarded |-> <<>>, stored |-> 0]

\* The Edge table holding one edge per (source, target) pair of E, as
\* EdgeRepository.create stores them.
EdgeTable(E, edge_type) ==
    [id \in {EdgeId(p[1], p[2]) : p \in E} |->
        LET p == CHOOSE q \in E : EdgeId(q[1], q[2]) = id
        IN  [source_node_id |-> p[1], target_node_id |-> p[2],
             edge_type |-> edge_type]]

\* Node tables over the ids S: each node in some graph, with some backend of B.
NodeTables(B) ==
    UNION {[S -> [graph_id : GraphIds, backend : B]] : S \in SUBSET NodeIds}

\* Edge tables of at most k edges between stored nodes (create_edge accepts
\* any pair of existing nodes, a node with itself included).
EdgeTables(k) ==
    {EdgeTable(E, "provides_context") :
        E \in {F \in SUBSET ((DOMAIN nodes) \X (DOMAIN nodes)) : Cardinality(F) <= k}}

\* ------------------------------------------------ specification TopoSpec
\* The analysis calls applied to every bounded store.
TopoInit ==
    /\ graphs = GraphIds
    /\ nodes \in NodeTables({"groq"})
    /\ edges \in EdgeTables(TopoMaxEdges)
    /\ conversations = <<>>
    /\ analysis = NoAnalysis
    /\ prevSort = NoAnalysis
    /\ run = NoRun
    /\ runAtStart = <<>>
    /\ nruns = 0
    /\ nfaults = 0
    /\ reply = NoReply
    /\ threads = NoThreads
    /\ stream = NoStream

DetectCycles(graph_id) ==
    \E r \in DetectCyclesResults(graph_id) :
        /\ analysis' = [NoAnalysis EXCEPT !.op = "detect_cycles",
                            !.graph_id = graph_id,
                            !.has_cycle = r.has_cycle, !.cycles = r.cycles]
        /\ UNCHANGED <<stream, threads, reply, graphs, nodes, edges, conversations, prevSort,
                       run, runAtStart, nruns, nfaults>>

ComputeTopologicalSort(graph_id) ==
    \E r \in TopologicalSortResults(graph_id) :
        /\ analysis' = [NoAnalysis EXCEPT !.op = "compute_topological_sort",
                            !.graph_id = graph_id,
                            !.is_none = r.is_none, !.order = r.order]
        /\ prevSort' = IF analysis.op = "compute_topological_sort"
                       THEN analysis ELSE prevSort
        /\ UNCHANGED <<stream, threads, reply, graphs, nodes, edges, conversations,
                       run, runAtStart, nruns, nfaults>>

TopoNext ==
    \/ \E g \in GraphIds : DetectCycles(g)
    \/ \E g \in GraphIds : ComputeTopologicalSort(g)

TopoSpec == TopoInit /\ [][TopoNext]_vars

\* ------------------------------------------------------ conversation store
DEFAULT_MESSAGE == "Process the context from parent nodes and provide insights."

\* The place of a deleted Conversation row: its id is not given out again.
DeletedConversation == [node_id |-> "", messages |-> <<>>]

\* Conversation ids of ConversationRepository.get_by_node(node_id), as a set.
get_by_node(node_id) ==
    {c \in DOMAIN conversations : conversations[c].node_id = node_id}

\* ConversationRepository.create: a new row, with the next id and no messages.
create(convs, node_id) ==
    Append(convs, [node_id |-> node_id, messages |-> <<>>])

\* add_message with the message put in the place of the stored ones.
add_message_replacing(convs, conversation_id, role, content) ==
    [convs EXCEPT ![conversation_id].messages = <<[role |-> role, content |-> content]>>]

\* ConversationRepository.add_message.
add_message(convs, conversation_id, role, content) ==
    [convs EXCEPT ![conversation_id].messages =
        Append(@, [role |-> role, content |-> content])]

\* Ids of NodeRepository.get_parent_nodes(node_id), as a set: the stored nodes
\* that are the source of an edge into node_id.
get_parent_nodes(node_id) ==
    {edges[e].source_node_id :
        e \in {x \in DOMAIN edges : edges[x].target_node_id = node_id}}
    \cap DOMAIN nodes

\* What "conversations[0]" can be for each node of S: 0 when get_by_node
\* returns no row, else the row the unordered query returns first.
FirstConversation(S) ==
    {f \in [S -> 0..Len(conversations)] :
        \A n \in S : IF get_by_node(n) = {} THEN f[n] = 0 ELSE f[n] \in get_by_node(n)}

IsAssistant(msg) == msg.role = "assistant"

IsUser(msg) == msg.role = "user"

\* last_response of one parent whose first conversation row is c (0: none).
last_response(c) ==
    IF c = 0 THEN ""
    ELSE LET assistant_messages == SelectSeq(conversations[c].messages, IsAssistant)
         IN  IF Len(assistant_messages) > 0
             THEN assistant_messages[Len(assistant_messages)].content
             ELSE ""

\* parent_contexts, in the order get_parent_nodes returned the parents.
parent_contexts(parentRows, first) ==
    [i \in DOMAIN parentRows |->
        [node_id |-> parentRows[i], last_response |-> last_response(first[parentRows[i]])]]

\* ------------------------------------------------------------ AI providers
\* get_provider with a provider returned for every backend key.
get_provider_default(backend) ==
    IF backend = "groq" THEN "GroqProvider" ELSE "OllamaProvider"

\* AIProviderFactory.get_provider; "ValueError" stands for the raised error.
get_provider(backend) ==
    IF backend = "ollama" THEN "OllamaProvider"
    ELSE IF backend = "groq" THEN "GroqProvider"
    ELSE "ValueError"

\* What the provider's HTTP exchange can yield: the content of a well-formed
\* reply, or a failure (connection error, bad status, undecodable payload,
\* missing API key).  The replies of the k-th execute_workflow call carry the
\* text ReplyText(k), so that a reply is told from the replies of earlier calls.
ReplyText(k) == "T" \o ToString(k)

ProviderFailures == {"unreachable"}

BackendResponses ==
    [kind : {"content"}, text : {ReplyText(nruns)}]
        \cup [kind : {"error"}, text : ProviderFailures]

\* OllamaProvider.process_node / GroqProvider.process_node: both catch every
\* failure and return it as an "Error: ..." string.
process_node(provider, response) ==
    IF response.kind = "content" THEN response.text
    ELSE "Error: " \o response.text

\* ------------------------------------------- WorkflowService.execute_workflow
SetItem(dict, key, value) ==
    [k \in (DOMAIN dict) \cup {key} |-> IF k = key THEN value ELSE dict[k]]

\* The outer "except" clauses: the call returns (None, message).
Abort(r, message) == [r EXCEPT !.pc = "aborted", !.error = message]

\* results[node_id] = text, and on to the next node of execution_order.
Record(r, node_id, text) ==
    [r EXCEPT !.results = SetItem(@, node_id, text), !.idx = @ + 1]

\* The conversation the step of node_id works on: its id, whether the step
\* created it, and conversation_history as read from it (before the default
\* user message is appended).
Loaded(r, node_id, conversation_id, created, conversation_history) ==
    [r EXCEPT !.histories = SetItem(@, node_id,
        [conversation_id |-> conversation_id, created |-> created,
         messages |-> conversation_history])]

\* provider.process_node was called for node_id with the given contexts.
Called(r, node_id, contexts, response) ==
    [r EXCEPT !.calls = Append(@, node_id),
              !.contexts = SetItem(@, node_id, contexts),
              !.failed = IF response.kind = "error" THEN @ \cup {node_id} ELSE @]

\* Planning with no checks on the analysis results.
Planning_unchecked(graph_id, cycles, execution_order) ==
    IF graph_id \notin graphs THEN Abort([NoRun EXCEPT !.graph_id = graph_id],
                                         "Graph not found")
    ELSE [NoRun EXCEPT !.pc = "running", !.graph_id = graph_id,
                       !.execution_order = execution_order.order, !.idx = 1]

\* The head of execute_workflow, up to the node loop.
Planning(graph_id, cycles, execution_order) ==
    IF graph_id \notin graphs
    THEN Abort([NoRun EXCEPT !.graph_id = graph_id], "Graph not found")
    ELSE IF cycles.has_cycle
    THEN Abort([NoRun EXCEPT !.graph_id = graph_id], "Graph contains cycles")
    ELSE IF execution_order.is_none \/ execution_order.order = <<>>
    THEN Abort([NoRun EXCEPT !.graph_id = graph_id],
               "Failed to determine execution order")
    ELSE [NoRun EXCEPT !.pc = "running", !.graph_id = graph_id,
                       !.execution_order = execution_order.order, !.idx = 1]

\* get_provider raised: the error is recorded as the node's result.
unsupported_backend_recorded(convs, r, node_id) ==
    [conversations |-> convs, faulted |-> FALSE,
     run |-> Record(r, node_id, "Error: Unsupported backend")]

\* get_provider raised, outside the inner try: the whole call fails.
unsupported_backend(convs, r, node_id) ==
    [conversations |-> convs, faulted |-> FALSE,
     run |-> Abort(r, "Error executing workflow: Unsupported backend")]

\* The inner try with a provider whose failure propagates out of the call.
process_and_persist_raising(convs, r, conversation_id, node_id, contexts, response, fault) ==
    IF response.kind = "error"
    THEN [conversations |-> convs, faulted |-> FALSE,
          run |-> Abort(Called(r, node_id, contexts, response),
                        "Error executing workflow: " \o response.text)]
    ELSE [conversations |->
              add_message(convs, conversation_id, "assistant", response.text),
          faulted |-> FALSE,
          run |-> Record(Called(r, node_id, contexts, response), node_id, response.text)]

\* The inner try: process_node, add the assistant message, record the result;
\* an exception (add_message failing) is recorded as the node's result.
process_and_persist(convs, r, conversation_id, node_id, contexts, response, fault) ==
    LET result == process_node(get_provider(nodes[node_id].backend), response)
        called == Called(r, node_id, contexts, response)
    IN  IF fault = "add_assistant"
        THEN [conversations |-> convs, faulted |-> TRUE,
              run |-> Record(called, node_id, "Error: database error")]
        ELSE [conversations |-> add_message(convs, conversation_id, "assistant", result),
              faulted |-> FALSE,
              run |-> Record(called, node_id, result)]

\* One iteration of the node loop for node_id.  parentRows: the rows of
\* get_parent_nodes; first: the first row of each get_by_node query; fault: the
\* store write that raises SQLAlchemyError in this iteration, if any;
\* response: what the provider's HTTP exchange yields.
execute_step_of(r, node_id, parentRows, first, fault, response) ==
    IF node_id \notin DOMAIN nodes
    THEN [conversations |-> conversations, faulted |-> FALSE,
          run |-> Record(r, node_id, "Error: Node not found")]
    ELSE
    LET contexts == parent_contexts(parentRows, first)
        existing == first[node_id]
    IN  IF existing = 0 /\ fault = "create"
        THEN [conversations |-> conversations, faulted |-> TRUE,
              run |-> Abort(r, "Error executing workflow: database error")]
        ELSE
        LET convs1 == IF existing = 0 THEN create(conversations, node_id)
                      ELSE conversations
            conversation_id == IF existing = 0 THEN Len(convs1) ELSE existing
            conversation_history == convs1[conversation_id].messages
            no_user == SelectSeq(conversation_history, IsUser) = <<>>
            loaded == Loaded(r, node_id, conversation_id, existing = 0,
                             conversation_history)
        IN  IF no_user /\ fault = "add_user"
            THEN [conversations |-> convs1, faulted |-> TRUE,
                  run |-> Abort(loaded, "Error executing workflow: database error")]
            ELSE
            LET convs2 == IF no_user
                          THEN add_message(convs1, conversation_id, "user", DEFAULT_MESSAGE)
                          ELSE convs1
            IN  IF get_provider(nodes[node_id].backend) = "ValueError"
                THEN unsupported_backend(convs2, loaded, node_id)
                ELSE process_and_persist(convs2, loaded, conversation_id, node_id,
                                         contexts, response, fault)

\* The iteration as the call in progress makes it.
execute_step(node_id, parentRows, first, fault, response) ==
    execute_step_of(run, node_id, parentRows, first, fault, response)

\* The store writes that can raise in one iteration.
StorageFaults ==
    IF nfaults < MaxFaults THEN {"none", "create", "add_user", "add_assistant"}
    ELSE {"none"}

ExecuteStart(graph_id) ==
    /\ run.pc # "running"
    /\ nruns < MaxRuns
    /\ nruns' = nruns + 1
    /\ runAtStart' = conversations
    /\ \E cycles \in DetectCyclesResults(graph_id),
          execution_order \in TopologicalSortResults(graph_id) :
            run' = Planning(graph_id, cycles, execution_order)
    /\ UNCHANGED <<stream, threads, reply, graphs, nodes, edges, conversations, analysis, prevSort, nfaults>>

ExecuteNode ==
    /\ run.pc = "running"
    /\ run.idx <= Len(run.execution_order)
    /\ LET node_id == run.execution_order[run.idx]
           readers == get_parent_nodes(node_id) \cup {node_id}
       IN  \E parentRows \in Rows(get_parent_nodes(node_id)),
              first \in FirstConversation(readers),
              fault \in StorageFaults,
              response \in BackendResponses :
                LET step == execute_step(node_id, parentRows, first, fault, response) IN
                /\ conversations' = step.conversations
                /\ run' = step.run
                /\ nfaults' = IF step.faulted THEN nfaults + 1 ELSE nfaults
    /\ UNCHANGED <<stream, threads, reply, graphs, nodes, edges, analysis, prevSort, runAtStart, nruns>>

\* The return of the report {execution_order, results}.
ExecuteReturn ==
    /\ run.pc = "running"
    /\ run.idx > Len(run.execution_order)
    /\ run' = [run EXCEPT !.pc = "completed"]
    /\ UNCHANGED <<stream, threads, reply, graphs, nodes, edges, conversations, analysis, prevSort,
                   runAtStart, nruns, nfaults>>

\* ------------------------------------------------------ specification Spec
\* execute_workflow calls on every bounded store, with no conversation yet.
\* Graph ids are interchangeable in the code, so the stores are taken up to a
\* renaming of the graphs: the first node is in graph 1.  The two supported
\* backends differ only in the HTTP exchange, which BackendResponses covers,
\* so the stores draw one supported and one unsupported backend key.
ExecBackends == {"ollama", "other"}

Init ==
    /\ graphs = GraphIds
    /\ nodes \in {t \in NodeTables(ExecBackends) :
                    DOMAIN t = NodeIds /\ t[AllNodeIds[1]].graph_id = 1}
    /\ edges \in EdgeTables(ExecMaxEdges)
    /\ conversations = <<>>
    /\ analysis = NoAnalysis
    /\ prevSort = NoAnalysis
    /\ run = NoRun
    /\ runAtStart = <<>>
    /\ nruns = 0
    /\ nfaults = 0
    /\ reply = NoReply
    /\ threads = NoThreads
    /\ stream = NoStream

Next ==
    \/ \E g \in GraphIds \cup {MaxGraphs + 1} : ExecuteStart(g)
    \/ ExecuteNode
    \/ ExecuteReturn

Spec == Init /\ [][Next]_vars

\* ------------------------------------------------ specification ConvSpec
\* The conversation routes (POST /nodes/<node_id>/conversations and
\* POST /conversations/<conversation_id>/messages) between execute_workflow
\* calls, on stores of ConvMaxNodes nodes in graph 1 joined by at most
\* ConvMaxEdges edges of one of the edge types.  No store write fails here.
ConvMaxNodes == 2
ConvMaxEdges == 1
MaxConversations == 3
MaxChatMessages == 2

ConvNodeIds == {AllNodeIds[i] : i \in 1..Min(ConvMaxNodes, Len(AllNodeIds))}

EdgeTypes == {"provides_context", "other"}

\* What a client posts as a message: its own text, or an assistant reply
\* of a chat held outside execute_workflow.
ChatMessages ==
    {[role |-> "user", content |-> "hello"],
     [role |-> "assistant", content |-> "R0"]}

RECURSIVE SumLen(_, _)
SumLen(convs, i) ==
    IF i > Len(convs) THEN 0 ELSE Len(convs[i].messages) + SumLen(convs, i + 1)

\* create_conversation of conversation_routes.
CreateConversation(node_id) ==
    /\ run.pc # "running"
    /\ node_id \in DOMAIN nodes
    /\ Len(conversations) < MaxConversations
    /\ conversations' = create(conversations, node_id)
    /\ UNCHANGED <<stream, threads, reply, graphs, nodes, edges, analysis, prevSort, run, runAtStart,
                   nruns, nfaults>>

\* add_message of conversation_routes.
AddMessage(conversation_id, msg) ==
    /\ run.pc # "running"
    /\ conversation_id \in DOMAIN conversations
    /\ conversations[conversation_id] # DeletedConversation
    /\ SumLen(conversations, 1) < MaxChatMessages
    /\ conversations' = add_message(conversations, conversation_id, msg.role, msg.content)
    /\ UNCHANGED <<stream, threads, reply, graphs, nodes, edges, analysis, prevSort, run, runAtStart,
                   nruns, nfaults>>

\* execute_node of graph_execution_service with the process_node of
\* ollama_service / groq_service: the single-node execution of the function
\* services.  It takes the first conversation row of the node, creates none,
\* and stores a message only when the node has a conversation; a failed
\* exchange is returned as an "Error: ..." string and not stored.
execute_node(node_id, parentRows, first, response) ==
    LET contexts == parent_contexts(parentRows, first)
        conversation == first[node_id]
        conversation_history ==
            IF conversation = 0 THEN <<>> ELSE conversations[conversation].messages
        no_user == SelectSeq(conversation_history, IsUser) = <<>>
        convs1 == IF no_user /\ conversation # 0
                  THEN add_message(conversations, conversation, "user", DEFAULT_MESSAGE)
                  ELSE conversations
        r0 == [NoRun EXCEPT !.pc = "executed", !.graph_id = nodes[node_id].graph_id,
                            !.execution_order = <<node_id>>, !.idx = 1]
        loaded == Loaded(r0, node_id, conversation, FALSE, conversation_history)
    IN  IF get_provider(nodes[node_id].backend) = "ValueError"
        THEN [conversations |-> convs1,
              run |-> Record(loaded, node_id, "Error: Unsupported backend")]
        ELSE [conversations |->
                  IF response.kind = "content" /\ conversation # 0
                  THEN add_message(convs1, conversation, "assistant", response.text)
                  ELSE convs1,
              run |-> Record(Called(loaded, node_id, contexts, response), node_id,
                             process_node("legacy", response))]

LegacyExecuteNode(node_id) ==
    /\ run.pc # "running"
    /\ nruns < MaxRuns
    /\ node_id \in DOMAIN nodes
    /\ nruns' = nruns + 1
    /\ runAtStart' = conversations
    /\ \E parentRows \in Rows(get_parent_nodes(node_id)),
          first \in FirstConversation(get_parent_nodes(node_id) \cup {node_id}),
          response \in [kind : {"content"}, text : {ReplyText(nruns + 1)}]
                          \cup [kind : {"error"}, text : ProviderFailures] :
            LET step == execute_node(node_id, parentRows, first, response) IN
            /\ conversations' = step.conversations
            /\ run' = step.run
    /\ UNCHANGED <<stream, threads, reply, graphs, nodes, edges, analysis, prevSort, nfaults>>

ConvInit ==
    /\ graphs = GraphIds
    /\ nodes = [n \in ConvNodeIds |-> [graph_id |-> 1, backend |-> "ollama"]]
    /\ edges \in {EdgeTable(E, t) :
                    E \in {F \in SUBSET (ConvNodeIds \X ConvNodeIds) :
                              Cardinality(F) <= ConvMaxEdges},
                    t \in EdgeTypes}
    /\ conversations = <<>>
    /\ analysis = NoAnalysis
    /\ prevSort = NoAnalysis
    /\ run = NoRun
    /\ runAtStart = <<>>
    /\ nruns = 0
    /\ nfaults = MaxFaults
    /\ reply = NoReply
    /\ threads = NoThreads
    /\ stream = NoStream

ConvNext ==
    \/ \E n \in ConvNodeIds : CreateConversation(n)
    \/ \E c \in 1..MaxConversations, msg \in ChatMessages : AddMessage(c, msg)
    \/ ExecuteStart(1)
    \/ ExecuteNode
    \/ ExecuteReturn
    \/ \E n \in ConvNodeIds : LegacyExecuteNode(n)

ConvSpec == ConvInit /\ [][ConvNext]_vars

\* ------------------------------------------------ specification CrudSpec
\* The create and delete operations of graph_crud_service and of the
\* conversation routes, from the empty store.  One of the node ids holds the
\* "-" that EdgeId puts between the ids.
CrudMaxConversations == 2

CrudNodeIds == {"a", "a-a"}

CrudEdgeIds == {EdgeId(p[1], p[2]) : p \in CrudNodeIds \X CrudNodeIds}

\* create_edge: None when an endpoint is missing, the stored edge when the
\* id is taken, else a new row.
create_edge_overwriting(source_id, target_id, edge_type) ==
    LET edge == [source_node_id |-> source_id, target_node_id |-> target_id,
                 edge_type |-> edge_type]
    IN  IF source_id \notin DOMAIN nodes \/ target_id \notin DOMAIN nodes
        THEN [edges |-> edges, edge |-> NoEdge]
        ELSE [edges |-> SetItem(edges, EdgeId(source_id, target_id), edge),
              edge |-> edge]

create_edge(source_id, target_id, edge_type) ==
    LET edge_id == EdgeId(source_id, target_id)
        edge == [source_node_id |-> source_id, target_node_id |-> target_id,
                 edge_type |-> edge_type]
    IN  IF source_id \notin DOMAIN nodes \/ target_id \notin DOMAIN nodes
        THEN [edges |-> edges, edge |-> NoEdge]
        ELSE IF edge_id \in DOMAIN edges
        THEN [edges |-> edges, edge |-> edges[edge_id]]
        ELSE [edges |-> SetItem(edges, edge_id, edge), edge |-> edge]

\* delete_edge: False when there is no such edge.
delete_edge(edge_id) ==
    IF edge_id \notin DOMAIN edges THEN [edges |-> edges, ok |-> FALSE]
    ELSE [edges |-> [e \in (DOMAIN edges) \ {edge_id} |-> edges[e]], ok |-> TRUE]

\* db.session.delete of the Node rows S: the cascades of Node.conversations
\* (and Conversation.messages), Node.outgoing_edges and Node.incoming_edges
\* delete their rows with them.
delete_nodes(S) ==
    [nodes |-> [n \in (DOMAIN nodes) \ S |-> nodes[n]],
     edges |-> [e \in {x \in DOMAIN edges :
                         /\ edges[x].source_node_id \notin S
                         /\ edges[x].target_node_id \notin S} |-> edges[e]],
     conversations |-> [c \in DOMAIN conversations |->
                           IF conversations[c].node_id \in S THEN DeletedConversation
                           ELSE conversations[c]]]

\* create_graph: a new Graph row under an id not in use.
CreateGraph(graph_id) ==
    /\ graph_id \notin graphs
    /\ graphs' = graphs \cup {graph_id}
    /\ UNCHANGED <<stream, threads, reply, nodes, edges, conversations, analysis, prevSort, run,
                   runAtStart, nruns, nfaults>>

\* delete_graph: Graph.nodes cascades to the nodes of the graph.
DeleteGraph(graph_id) ==
    /\ graph_id \in graphs
    /\ LET deleted == delete_nodes(get_by_graph(graph_id)) IN
        /\ graphs' = graphs \ {graph_id}
        /\ nodes' = deleted.nodes
        /\ edges' = deleted.edges
        /\ conversations' = deleted.conversations
    /\ UNCHANGED <<stream, threads, reply, analysis, prevSort, run, runAtStart, nruns, nfaults>>

\* create_node of node_routes: 404 without the graph; a node id in use
\* fails on the primary key and the store stays as it was.
CreateNode(graph_id, node_id) ==
    /\ graph_id \in graphs
    /\ node_id \notin DOMAIN nodes
    /\ nodes' = SetItem(nodes, node_id, [graph_id |-> graph_id, backend |-> "ollama"])
    /\ UNCHANGED <<stream, threads, reply, graphs, edges, conversations, analysis, prevSort, run,
                   runAtStart, nruns, nfaults>>

DeleteNode(node_id) ==
    /\ node_id \in DOMAIN nodes
    /\ LET deleted == delete_nodes({node_id}) IN
        /\ nodes' = deleted.nodes
        /\ edges' = deleted.edges
        /\ conversations' = deleted.conversations
    /\ UNCHANGED <<stream, threads, reply, graphs, analysis, prevSort, run, runAtStart, nruns, nfaults>>

CreateEdge(source_id, target_id, edge_type) ==
    /\ LET created == create_edge(source_id, target_id, edge_type) IN
        /\ edges' = created.edges
        /\ reply' = [NoReply EXCEPT !.op = "create_edge",
                                    !.args = [source_node_id |-> source_id,
                                              target_node_id |-> target_id,
                                              edge_type |-> edge_type],
                                    !.id = EdgeId(source_id, target_id),
                                    !.edge = created.edge]
    /\ UNCHANGED <<stream, threads, graphs, nodes, conversations, analysis, prevSort, run,
                   runAtStart, nruns, nfaults>>

DeleteEdge(edge_id) ==
    /\ LET deleted == delete_edge(edge_id) IN
        /\ edges' = deleted.edges
        /\ reply' = [NoReply EXCEPT !.op = "delete_edge", !.id = edge_id,
                                    !.ok = deleted.ok]
    /\ UNCHANGED <<stream, threads, graphs, nodes, conversations, analysis, prevSort, run,
                   runAtStart, nruns, nfaults>>

\* delete_conversation of conversation_routes.
DeleteConversation(conversation_id) ==
    /\ conversation_id \in DOMAIN conversations
    /\ conversations[conversation_id] # DeletedConversation
    /\ conversations' = [conversations EXCEPT ![conversation_id] = DeletedConversation]
    /\ UNCHANGED <<stream, threads, reply, graphs, nodes, edges, analysis, prevSort, run, runAtStart,
                   nruns, nfaults>>

\* node_chat of routes/chat.py: it finds or creates a conversation for the
\* node_id of the request without looking the node up, stores the user input
\* and, through handle_chat, the reply of a successful exchange.  enforced:
\* whether the database enforces the foreign key of Conversation.node_id
\* (SQLite, the default database, does not unless told to); if it does, the
\* insert for a node that is not stored fails and nothing is stored.
node_chat(node_id, first, enforced, response) ==
    IF first[node_id] = 0 /\ node_id \notin DOMAIN nodes /\ enforced
    THEN conversations
    ELSE LET convs1 == IF first[node_id] = 0 THEN create(conversations, node_id)
                       ELSE conversations
             conversation_id == IF first[node_id] = 0 THEN Len(convs1)
                                ELSE first[node_id]
             convs2 == add_message(convs1, conversation_id, "user", "hello")
         IN  IF response.kind = "content"
             THEN add_message(convs2, conversation_id, "assistant", response.text)
             ELSE convs2

NodeChat(node_id) ==
    /\ Len(conversations) < CrudMaxConversations
    /\ SumLen(conversations, 1) = 0
    /\ \E first \in FirstConversation({node_id}), enforced \in BOOLEAN,
          response \in [kind : {"content"}, text : {"R0"}]
                          \cup [kind : {"error"}, text : ProviderFailures] :
            conversations' = node_chat(node_id, first, enforced, response)
    /\ UNCHANGED <<stream, threads, reply, graphs, nodes, edges, analysis, prevSort, run,
                   runAtStart, nruns, nfaults>>

CrudInit ==
    /\ graphs = {}
    /\ nodes = <<>>
    /\ edges = <<>>
    /\ conversations = <<>>
    /\ analysis = NoAnalysis
    /\ prevSort = NoAnalysis
    /\ run = NoRun
    /\ runAtStart = <<>>
    /\ nruns = 0
    /\ nfaults = MaxFaults
    /\ reply = NoReply
    /\ threads = NoThreads
    /\ stream = NoStream

CrudNext ==
    \/ \E g \in GraphIds : CreateGraph(g)
    \/ \E g \in GraphIds : DeleteGraph(g)
    \/ \E g \in GraphIds, n \in CrudNodeIds : CreateNode(g, n)
    \/ \E n \in CrudNodeIds : DeleteNode(n)
    \/ \E p, c \in CrudNodeIds, t \in EdgeTypes : CreateEdge(p, c, t)
    \/ \E e \in CrudEdgeIds : DeleteEdge(e)
    \/ \E n \in CrudNodeIds :
          Len(conversations) < CrudMaxConversations /\ CreateConversation(n)
    \/ \E c \in 1..MaxConversations, msg \in ChatMessages : AddMessage(c, msg)
    \/ \E c \in 1..MaxConversations : DeleteConversation(c)
    \/ \E n \in CrudNodeIds : NodeChat(n)

CrudSpec == CrudInit /\ [][CrudNext]_vars

\* ------------------------------------------------- specification ParSpec
\* execute_workflow calls of requests served at the same time: the server
\* (socketio.run in run.py) serves each request in a thread of its own, and
\* neither the route nor WorkflowService holds a lock.  A thread can be
\* suspended between any two statements; the model suspends it between the
\* get_by_node query of a node (line 88) and the rest of the node's iteration,
\* which is a subset of the interleavings of the code.  The stores have no
\* edges, so that an iteration reads no conversation but the node's own.
ParMaxRuns == 3

\* A request thread enters execute_workflow(graph_id).
ThreadStart(t, graph_id) ==
    /\ threads[t].run.pc # "running"
    /\ nruns < ParMaxRuns
    /\ nruns' = nruns + 1
    /\ \E cycles \in DetectCyclesResults(graph_id),
          execution_order \in TopologicalSortResults(graph_id) :
            threads' = [threads EXCEPT ![t] =
                [run |-> Planning(graph_id, cycles, execution_order),
                 queried |-> FALSE, first |-> <<>>]]
    /\ UNCHANGED <<stream, graphs, nodes, edges, conversations, analysis, prevSort, run,
                   runAtStart, nfaults, reply>>

\* The thread reads the conversations of its current node.
ThreadQuery(t) ==
    LET r == threads[t].run IN
    /\ r.pc = "running"
    /\ r.idx <= Len(r.execution_order)
    /\ ~threads[t].queried
    /\ \E first \in FirstConversation({r.execution_order[r.idx]}) :
            threads' = [threads EXCEPT ![t].queried = TRUE, ![t].first = first]
    /\ UNCHANGED <<stream, graphs, nodes, edges, conversations, analysis, prevSort, run,
                   runAtStart, nruns, nfaults, reply>>

\* The thread goes through the rest of the iteration with what it has read.
ThreadStep(t) ==
    LET r == threads[t].run IN
    /\ r.pc = "running"
    /\ threads[t].queried
    /\ \E response \in BackendResponses :
            LET step == execute_step_of(r, r.execution_order[r.idx], <<>>,
                                        threads[t].first, "none", response) IN
            /\ conversations' = step.conversations
            /\ threads' = [threads EXCEPT ![t] =
                    [run |-> step.run, queried |-> FALSE, first |-> <<>>]]
    /\ UNCHANGED <<stream, graphs, nodes, edges, analysis, prevSort, run, runAtStart,
                   nruns, nfaults, reply>>

\* The thread returns the report.
ThreadReturn(t) ==
    LET r == threads[t].run IN
    /\ r.pc = "running"
    /\ r.idx > Len(r.execution_order)
    /\ threads' = [threads EXCEPT ![t].run.pc = "completed"]
    /\ UNCHANGED <<stream, graphs, nodes, edges, conversations, analysis, prevSort, run,
                   runAtStart, nruns, nfaults, reply>>

ParInit ==
    /\ graphs = GraphIds
    /\ nodes \in {t \in [ConvNodeIds -> [graph_id : GraphIds, backend : {"ollama"}]] :
                    t[AllNodeIds[1]].graph_id = 1}
    /\ edges = <<>>
    /\ conversations = <<>>
    /\ analysis = NoAnalysis
    /\ prevSort = NoAnalysis
    /\ run = NoRun
    /\ runAtStart = <<>>
    /\ nruns = 0
    /\ nfaults = MaxFaults
    /\ reply = NoReply
    /\ threads = NoThreads
    /\ stream = NoStream

ParNext ==
    \/ \E t \in 1..MaxThreads, g \in GraphIds : ThreadStart(t, g)
    \/ \E t \in 1..MaxThreads : ThreadQuery(t)
    \/ \E t \in 1..MaxThreads : ThreadStep(t)
    \/ \E t \in 1..MaxThreads : ThreadReturn(t)

ParSpec == ParInit /\ [][ParNext]_vars

\* ----------------------------------------------- specification DepthSpec
\* get_node_depth of graph_analysis_service on every bounded store.
\* build_networkx_graph: the edges of G are the (source, target) pairs of the
\* stored edges whose source is a node of the graph; add_edge makes the
\* target a node of G as well.
build_networkx_graph(graph_id) ==
    LET pairs == {<<edges[e].source_node_id, edges[e].target_node_id>> :
                    e \in get_edges_for_graph(graph_id)}
    IN  [nodes |-> get_by_graph(graph_id) \cup {p[2] : p \in pairs},
         edges |-> pairs]

\* The nodes of G reached from the nodes of S along at most k edges.
RECURSIVE Within(_, _, _)
Within(G, S, k) ==
    IF k = 0 THEN S
    ELSE LET W == Within(G, S, k - 1)
         IN  W \cup {p[2] : p \in {q \in G.edges : q[1] \in W}}

\* nx.has_path(G, source, target).
has_path(G, source, target) ==
    target \in Within(G, {source}, Cardinality(G.nodes))

\* len(nx.shortest_path(G, source, target)) - 1, for a target that is reached.
shortest_path_length(G, source, target) ==
    CHOOSE k \in 0..Cardinality(G.nodes) :
        /\ target \in Within(G, {source}, k)
        /\ \A j \in 0..(k - 1) : target \notin Within(G, {source}, j)

Max(S) == CHOOSE x \in S : \A y \in S : y <= x

\* get_node_depth: -1 without the node or its graph; else the greatest of 0
\* and the lengths of the shortest paths to the node from the roots of G that
\* reach it.
get_node_depth(node_id) ==
    IF node_id \notin DOMAIN nodes THEN -1
    ELSE IF nodes[node_id].graph_id \notin graphs THEN -1
    ELSE LET G == build_networkx_graph(nodes[node_id].graph_id)
             roots == {n \in G.nodes : \A p \in G.edges : p[2] # n}
         IN  Max({0} \cup {shortest_path_length(G, root, node_id) :
                              root \in {r \in roots : has_path(G, r, node_id)}})

GetNodeDepth(node_id) ==
    /\ analysis' = [NoAnalysis EXCEPT !.op = "get_node_depth",
                                      !.node_id = node_id,
                                      !.depth = get_node_depth(node_id)]
    /\ UNCHANGED <<stream, threads, reply, graphs, nodes, edges, conversations,
                   prevSort, run, runAtStart, nruns, nfaults>>

DepthNext == \E n \in NodeIds : GetNodeDepth(n)

DepthSpec == TopoInit /\ [][DepthNext]_vars

\* ------------------------------------------------ specification EdgeSpec
\* The edge operations on a store holding the nodes of CrudNodeIds:
\* create_edge and delete_edge of graph_crud_service (the same code as
\* EdgeRepository.create and EdgeRepository.delete) and delete_edge of
\* EdgeService.

\* EdgeService.delete_edge with the result of edge_repo.delete returned as it is.
EdgeService_delete_edge_unchecked(edge_id) == delete_edge(edge_id)

\* EdgeService.delete_edge: True without a store access when edge_repo.get_by_id
\* finds no edge, else what edge_repo.delete returns.
EdgeService_delete_edge(edge_id) ==
    IF edge_id \notin DOMAIN edges THEN [edges |-> edges, ok |-> TRUE]
    ELSE delete_edge(edge_id)

\* reply.edge is existing_edge, the row the call found (NoEdge: none).
ServiceDeleteEdge(edge_id) ==
    /\ LET deleted == EdgeService_delete_edge(edge_id) IN
        /\ edges' = deleted.edges
        /\ reply' = [NoReply EXCEPT !.op = "EdgeService.delete_edge",
                                    !.id = edge_id,
                                    !.edge = IF edge_id \in DOMAIN edges
                                             THEN edges[edge_id] ELSE NoEdge,
                                    !.ok = deleted.ok]
    /\ UNCHANGED <<stream, threads, graphs, nodes, conversations, analysis, prevSort,
                   run, runAtStart, nruns, nfaults>>

EdgeInit ==
    /\ graphs = GraphIds
    /\ nodes \in [CrudNodeIds -> [graph_id : GraphIds, backend : {"ollama"}]]
    /\ edges = <<>>
    /\ conversations = <<>>
    /\ analysis = NoAnalysis
    /\ prevSort = NoAnalysis
    /\ run = NoRun
    /\ runAtStart = <<>>
    /\ nruns = 0
    /\ nfaults = MaxFaults
    /\ reply = NoReply
    /\ threads = NoThreads
    /\ stream = NoStream

EdgeNext ==
    \/ \E p, c \in CrudNodeIds, t \in EdgeTypes : CreateEdge(p, c, t)
    \/ \E e \in CrudEdgeIds : DeleteEdge(e)
    \/ \E e \in CrudEdgeIds : ServiceDeleteEdge(e)

EdgeSpec == EdgeInit /\ [][EdgeNext]_vars

\* ---------------------------------------------- specification StreamSpec
\* handle_chat of ollama_service with stream=True: the generator of
\* stream_ollama_response over the lines of a response of status 200.  The
\* response is what the Ollama chat API sends: one JSON object per line with
\* a content chunk (possibly empty), closed by one object with done = true;
\* lines may be blank or undecodable, and the response may break off before
\* the closing object.
MaxStreamLines == 3
MaxStreamMessages == 3

Chunks == {"", "x", "y"}

\* kind "json": an object {"message": {"content": content}, "done": done}.
StreamObjects == [kind : {"json"}, content : Chunks, done : {FALSE}]

OtherLines ==
    {[kind |-> "blank", content |-> "", done |-> FALSE],
     [kind |-> "undecodable", content |-> "", done |-> FALSE]}

DoneObjects == [kind : {"json"}, content : {"", "y"}, done : {TRUE}]

StreamBodies ==
    UNION {[1..k -> StreamObjects \cup OtherLines] : k \in 0..(MaxStreamLines - 1)}

\* The responses: a body, then the closing object unless the response broke off.
StreamResponses ==
    StreamBodies \cup {Append(b, d) : b \in StreamBodies, d \in DoneObjects}

\* One iteration of the stream loop with the assistant message stored before the chunk
\* of the line is accumulated.
stream_line_store_first(s, line, convs) ==
    IF line.kind # "json"
    THEN [stream |-> [s EXCEPT !.pos = @ + 1], conversations |-> convs]
    ELSE LET s1 == IF line.content # ""
                   THEN [s EXCEPT !.full_content = @ \o line.content,
                                  !.forwarded = Append(@, line.content)]
                   ELSE s
         IN  IF line.done /\ s.conversation_id # 0
             THEN [stream |-> [s1 EXCEPT !.pos = @ + 1, !.stored = @ + 1],
                   conversations |-> add_message(convs, s.conversation_id,
                                                 "assistant", s.full_content)]
             ELSE [stream |-> [s1 EXCEPT !.pos = @ + 1], conversations |-> convs]

\* One iteration of "for line in response.iter_lines": a blank line is passed
\* over, a line json.loads rejects is logged and passed over, the content of
\* an object is accumulated and yielded, and the object with done = true has
\* the accumulated text stored when there is a conversation_id.
stream_line(s, line, convs) ==
    IF line.kind # "json"
    THEN [stream |-> [s EXCEPT !.pos = @ + 1], conversations |-> convs]
    ELSE LET s1 == IF line.content # ""
                   THEN [s EXCEPT !.full_content = @ \o line.content,
                                  !.forwarded = Append(@, line.content)]
                   ELSE s
         IN  IF line.done /\ s.conversation_id # 0
             THEN [stream |-> [s1 EXCEPT !.pos = @ + 1, !.stored = @ + 1],
                   conversations |-> add_message(convs, s.conversation_id,
                                                 "assistant", s1.full_content)]
             ELSE [stream |-> [s1 EXCEPT !.pos = @ + 1], conversations |-> convs]

\* node_chat with stream = true for a node with backend ollama: the user
\* input is stored in the node's conversation (found or created), and
\* handle_chat hands the generator over the provider's response to the client.
StreamOpen(node_id, lines) ==
    /\ stream.pc # "streaming"
    /\ SumLen(conversations, 1) < MaxStreamMessages
    /\ \E first \in FirstConversation({node_id}) :
          LET convs1 == IF first[node_id] = 0 THEN create(conversations, node_id)
                        ELSE conversations
              conversation_id == IF first[node_id] = 0 THEN Len(convs1)
                                 ELSE first[node_id]
              convs2 == add_message(convs1, conversation_id, "user", "hello")
          IN  /\ conversations' = convs2
              /\ runAtStart' = convs2
              /\ stream' = [NoStream EXCEPT !.pc = "streaming",
                                            !.conversation_id = conversation_id,
                                            !.lines = lines, !.pos = 1]
    /\ UNCHANGED <<graphs, nodes, edges, analysis, prevSort, run, nruns, nfaults,
                   reply, threads>>

StreamLine ==
    /\ stream.pc = "streaming"
    /\ stream.pos <= Len(stream.lines)
    /\ LET step == stream_line(stream, stream.lines[stream.pos], conversations) IN
        /\ stream' = step.stream
        /\ conversations' = step.conversations
    /\ UNCHANGED <<graphs, nodes, edges, analysis, prevSort, run, runAtStart,
                   nruns, nfaults, reply, threads>>

\* The response is exhausted: the generator returns.
StreamClose ==
    /\ stream.pc = "streaming"
    /\ stream.pos > Len(stream.lines)
    /\ stream' = [stream EXCEPT !.pc = "closed"]
    /\ UNCHANGED <<graphs, nodes, edges, conversations, analysis, prevSort, run,
                   runAtStart, nruns, nfaults, reply, threads>>

StreamInit ==
    /\ graphs = GraphIds
    /\ nodes = [n \in {AllNodeIds[1]} |-> [graph_id |-> 1, backend |-> "ollama"]]
    /\ edges = <<>>
    /\ conversations = <<>>
    /\ analysis = NoAnalysis
    /\ prevSort = NoAnalysis
    /\ run = NoRun
    /\ runAtStart = <<>>
    /\ nruns = 0
    /\ nfaults = MaxFaults
    /\ reply = NoReply
    /\ threads = NoThreads
    /\ stream = NoStream

StreamNext ==
    \/ \E n \in DOMAIN nodes, lines \in StreamResponses : StreamOpen(n, lines)
    \/ StreamLine
    \/ StreamClose

StreamSpec == StreamInit /\ [][StreamNext]_vars

\* ------------------------------------------------- graph-theoretic notions
\* The (source, target) pairs of the edges of a graph that join two of its nodes.
InGraphPairs(graph_id) ==
    {<<edges[e].source_node_id, edges[e].target_node_id>> :
        e \in {x \in get_edges_for_graph(graph_id) :
                 edges[x].target_node_id \in get_by_graph(graph_id)}}

RECURSIVE TransitiveClosure(_, _)
TransitiveClosure(R, k) ==
    IF k = 0 THEN R
    ELSE LET T == TransitiveClosure(R, k - 1)
         IN  T \cup {<<x[1][1], x[2][2]>> : x \in {y \in T \X R : y[1][2] = y[2][1]}}

HasDirectedCycle(graph_id) ==
    \E n \in get_by_graph(graph_id) :
        <<n, n>> \in TransitiveClosure(InGraphPairs(graph_id), Cardinality(NodeIds))

StoredEdge(u, v) ==
    \E e \in DOMAIN edges :
        edges[e].source_node_id = u /\ edges[e].target_node_id = v

\* ------------------------------------------------------------------ claims
\* C1: for every acyclic graph compute_topological_sort returns an order, and
\* the order places the source of every edge of the graph before its target.
C1_SourceBeforeTarget ==
    (analysis.op = "compute_topological_sort"
        /\ ~HasDirectedCycle(analysis.graph_id)) =>
    /\ ~analysis.is_none
    /\ \A e \in get_edges_for_graph(analysis.graph_id) :
        \E i, j \in DOMAIN analysis.order :
            /\ i < j
            /\ analysis.order[i] = edges[e].source_node_id
            /\ analysis.order[j] = edges[e].target_node_id

C1_Witness ==
    /\ analysis.op = "compute_topological_sort"
    /\ ~analysis.is_none
    /\ Cardinality(InGraphPairs(analysis.graph_id)) >= 2
    /\ Len(analysis.order) >= 3

\* C2: detect_cycles reports has_cycle (with a non-empty cycle list) exactly
\* for the graphs that have a directed cycle among their nodes, a self-loop
\* included, and compute_topological_sort returns None for those graphs.
C2_CycleDetected ==
    /\ analysis.op = "detect_cycles" =>
        /\ analysis.has_cycle <=> HasDirectedCycle(analysis.graph_id)
        /\ analysis.has_cycle <=> Len(analysis.cycles) > 0
    /\ (analysis.op = "compute_topological_sort"
            /\ HasDirectedCycle(analysis.graph_id)) =>
        analysis.is_none /\ analysis.order = <<>>

C2_Witness ==
    /\ analysis.op = "detect_cycles"
    /\ analysis.has_cycle
    /\ \E n \in get_by_graph(analysis.graph_id) : StoredEdge(n, n)

\* C3: every cycle detect_cycles returns is a closed walk: it starts and ends
\* at the same node and every consecutive pair is a stored edge.
C3_ClosedWalk ==
    analysis.op = "detect_cycles" =>
        \A k \in DOMAIN analysis.cycles :
            LET cycle == analysis.cycles[k] IN
            /\ Len(cycle) >= 2
            /\ cycle[1] = cycle[Len(cycle)]
            /\ \A i \in 1..(Len(cycle) - 1) : StoredEdge(cycle[i], cycle[i + 1])

C3_Witness ==
    /\ analysis.op = "detect_cycles"
    /\ \E k \in DOMAIN analysis.cycles : Len(analysis.cycles[k]) >= 3

\* C10: two compute_topological_sort calls on the same unmodified graph
\* return the identical order, whatever row orders the store returned.
C10_Deterministic ==
    (analysis.op = "compute_topological_sort"
        /\ prevSort.op = "compute_topological_sort"
        /\ prevSort.graph_id = analysis.graph_id) =>
    /\ analysis.is_none = prevSort.is_none
    /\ analysis.order = prevSort.order

\* Position of node n in the sequence seq (0 when absent).
Position(seq, n) ==
    IF n \in Range(seq) THEN Index(seq, n) ELSE 0

Supported(n) == get_provider(nodes[n].backend) # "ValueError"

ErrorTexts ==
    {"Error: " \o f : f \in ProviderFailures} \cup {"Error: database error"}

UserMessage == [role |-> "user", content |-> DEFAULT_MESSAGE]

AssistantMessage(text) == [role |-> "assistant", content |-> text]

\* The node had no conversation / no assistant message when the call started.
NoConversationAtStart(n) ==
    \A c \in DOMAIN runAtStart : runAtStart[c].node_id # n

NoAssistantAtStart(n) ==
    \A c \in DOMAIN runAtStart :
        runAtStart[c].node_id = n => SelectSeq(runAtStart[c].messages, IsAssistant) = <<>>

\* C4: execute_workflow on a graph with a cycle returns an error and no
\* report, calls no provider and leaves the conversation store as it was.
C4_CycleAborts ==
    (run.pc # "idle" /\ run.graph_id \in graphs /\ HasDirectedCycle(run.graph_id)) =>
    /\ run.pc = "aborted"
    /\ run.error # ""
    /\ run.calls = <<>>
    /\ DOMAIN run.results = {}
    /\ conversations = runAtStart

C4_Witness ==
    /\ run.pc = "aborted"
    /\ run.graph_id \in graphs
    /\ HasDirectedCycle(run.graph_id)
    /\ runAtStart # <<>>

\* C5: in every call that returns a report the provider was called exactly
\* once for each node of execution_order, in that order, and results has one
\* string for each node of execution_order and for no other id.
C5_ReportShape ==
    run.pc = "completed" =>
    /\ run.calls = run.execution_order
    /\ \A i, j \in DOMAIN run.execution_order :
        i # j => run.execution_order[i] # run.execution_order[j]
    /\ DOMAIN run.results = Range(run.execution_order)
    /\ \A n \in DOMAIN run.results : run.results[n] \in STRING

C5_Witness ==
    /\ run.pc = "completed"
    /\ Len(run.execution_order) >= 3
    /\ run.failed # {}

\* C6: a failing provider call does not abort the call: the step that made it
\* records an error text for the node and goes on to the next node, and every
\* node the loop has passed, the successors of a failed node included, had its
\* provider called.
C6_FailureDoesNotAbort ==
    /\ [][(run.pc = "running" /\ run'.failed # run.failed) =>
            /\ run'.pc = "running"
            /\ run'.idx = run.idx + 1
            /\ run.execution_order[run.idx] \in DOMAIN run'.results
            /\ run'.results[run.execution_order[run.idx]] \in ErrorTexts]_vars
    /\ [](run.pc \in {"running", "completed"} =>
            \A i \in DOMAIN run.execution_order :
                i < run.idx => run.execution_order[i] \in Range(run.calls))

C6_Witness ==
    /\ run.pc = "completed"
    /\ \E a \in run.failed : \E b \in Range(run.calls) :
        /\ StoredEdge(a, b)
        /\ Position(run.calls, a) < Position(run.calls, b)
        /\ run.results[a] \in ErrorTexts

\* C7: a node without parents and without a conversation has, after its
\* execution, exactly the default user message followed by one assistant
\* message when the provider call succeeded, and the default user message
\* alone when the provider call failed.
C7_ConversationAfterExecution ==
    \A n \in Range(run.calls) :
        (get_parent_nodes(n) = {} /\ NoConversationAtStart(n) /\ nfaults = 0) =>
        /\ Cardinality(get_by_node(n)) = 1
        /\ \A c \in get_by_node(n) :
            conversations[c].messages =
                IF n \in run.failed THEN <<UserMessage>>
                ELSE <<UserMessage, AssistantMessage(run.results[n])>>

\* C8: when the provider call of parent A failed and A had no earlier
\* assistant message, child B of an edge A -> B is executed and the parent
\* context it receives for A is the empty string.
C8_FailedParentEmptyContext ==
    /\ run.pc = "completed" => \A b \in Range(run.execution_order) : b \in Range(run.calls)
    /\ \A b \in Range(run.calls) :
        \A i \in DOMAIN run.contexts[b] :
            LET a == run.contexts[b][i].node_id IN
            (/\ a \in run.failed
             /\ Position(run.calls, a) < Position(run.calls, b)
             /\ NoAssistantAtStart(a)
             /\ nfaults = 0) =>
            run.contexts[b][i].last_response = ""

\* C9: once planning has succeeded the call ends by returning a report:
\* a call that returns an error has failed in planning, before the node loop
\* (all backends being supported ones).
C9_PlannedRunReturnsReport ==
    (run.pc = "aborted" /\ \A n \in DOMAIN nodes : Supported(n)) =>
    run.execution_order = <<>>

\* The id of the most recently created conversation of a node (0: none);
\* ids grow with the time of creation.
MostRecentConversation(node_id) ==
    IF get_by_node(node_id) = {} THEN 0
    ELSE CHOOSE c \in get_by_node(node_id) : \A d \in get_by_node(node_id) : d <= c

\* The content of the latest assistant message of a message list ("": none).
LatestAssistantText(messages) ==
    IF \E i \in DOMAIN messages : IsAssistant(messages[i])
    THEN messages[CHOOSE i \in DOMAIN messages :
                    /\ IsAssistant(messages[i])
                    /\ \A j \in DOMAIN messages : IsAssistant(messages[j]) => j <= i].content
    ELSE ""

\* The nodes whose step the transition has taken.
StepNodes ==
    IF nruns' # nruns
    THEN IF run'.pc = "executed" THEN DOMAIN run'.contexts ELSE {}
    ELSE (DOMAIN run'.contexts) \ (DOMAIN run.contexts)

\* C11: the context text a step assembles for a parent is the content of the
\* latest assistant message of the parent's most recently created
\* conversation, and "" when the parent has no conversation or that
\* conversation has no assistant message.
C11_ContextFromMostRecentConversation ==
    [][\A b \in StepNodes : \A i \in DOMAIN run'.contexts[b] :
          LET c == MostRecentConversation(run'.contexts[b][i].node_id) IN
          run'.contexts[b][i].last_response =
              IF c = 0 THEN "" ELSE LatestAssistantText(conversations[c].messages)]_vars

\* The nodes whose conversation the transition has loaded.
LoadedNodes ==
    IF nruns' # nruns
    THEN IF run'.pc = "executed" THEN DOMAIN run'.histories ELSE {}
    ELSE (DOMAIN run'.histories) \ (DOMAIN run.histories)

\* C12: the history of a step is the message list of the node's most recently
\* created conversation; a node without a conversation has the empty history
\* and gets a conversation of its own, created by the step, which receives
\* the messages of the step.
C12_HistoryFromMostRecentConversation ==
    [][\A n \in LoadedNodes :
          LET c == MostRecentConversation(n)
              h == run'.histories[n]
          IN  IF c = 0
              THEN /\ h.created
                   /\ h.messages = <<>>
                   /\ h.conversation_id \in DOMAIN conversations'
                   /\ conversations'[h.conversation_id].node_id = n
                   /\ (n \in Range(run'.calls) => conversations'[h.conversation_id].messages # <<>>)
              ELSE /\ ~h.created
                   /\ h.messages = conversations[c].messages]_vars

\* The number of default user messages in a message list.
DefaultMessages(messages) ==
    Cardinality({i \in DOMAIN messages :
                    IsUser(messages[i]) /\ messages[i].content = DEFAULT_MESSAGE})

\* The step of node n has stored the default user message right after the
\* history it loaded.
PersistedDefault(n) ==
    LET h == run'.histories[n] IN
    /\ h.conversation_id \in DOMAIN conversations'
    /\ Len(conversations'[h.conversation_id].messages) > Len(h.messages)
    /\ conversations'[h.conversation_id].messages[Len(h.messages) + 1] = UserMessage

\* C13: a step stores the default user message exactly when the history it
\* loaded holds no user message, and no conversation ever holds more than
\* one default user message.
C13_DefaultUserMessage ==
    /\ [][\A n \in LoadedNodes :
            PersistedDefault(n) <=>
                SelectSeq(run'.histories[n].messages, IsUser) = <<>>]_vars
    /\ [](\A c \in DOMAIN conversations : DefaultMessages(conversations[c].messages) <= 1)

C15_CreateEdgeIdempotent ==
    [][\A source_id, target_id \in CrudNodeIds, edge_type \in EdgeTypes :
          (/\ CreateEdge(source_id, target_id, edge_type)
           /\ source_id \in DOMAIN nodes
           /\ target_id \in DOMAIN nodes) =>
          LET edge_id == source_id \o "-" \o target_id IN
          /\ edge_id \in DOMAIN edges'
          /\ reply'.edge = edges'[edge_id]
          /\ ~reply'.raised
          /\ edge_id \in DOMAIN edges => edges' = edges /\ reply'.edge = edges[edge_id]
          /\ edge_id \notin DOMAIN edges =>
                /\ reply'.edge = reply'.args
                /\ \A e \in DOMAIN edges : e \in DOMAIN edges' /\ edges'[e] = edges[e]]_vars

\* A second create_edge call, with another edge_type, has returned the edge
\* stored by the first.
C15_Witness ==
    /\ reply.op = "create_edge"
    /\ reply.id \in DOMAIN edges
    /\ reply.edge = edges[reply.id]
    /\ reply.edge.source_node_id = reply.args.source_node_id
    /\ reply.edge.target_node_id = reply.args.target_node_id
    /\ reply.edge.edge_type # reply.args.edge_type

\* C16: no edge refers to a node that is not stored, no conversation (with
\* its messages) belongs to a node that is not stored, and no node belongs to
\* a graph that is not stored.
C16_ReferentialIntegrity ==
    /\ \A e \in DOMAIN edges :
        /\ edges[e].source_node_id \in DOMAIN nodes
        /\ edges[e].target_node_id \in DOMAIN nodes
    /\ \A c \in DOMAIN conversations :
        conversations[c] # DeletedConversation => conversations[c].node_id \in DOMAIN nodes
    /\ \A n \in DOMAIN nodes : nodes[n].graph_id \in graphs

\* C17: the source and the target of every stored edge are stored nodes of
\* one and the same graph.
C17_EdgeWithinOneGraph ==
    \A e \in DOMAIN edges :
        /\ edges[e].source_node_id \in DOMAIN nodes
        /\ edges[e].target_node_id \in DOMAIN nodes
        /\ nodes[edges[e].source_node_id].graph_id = nodes[edges[e].target_node_id].graph_id

\* C18: every parent context a node was executed with belongs to a parent
\* that has a provides_context edge into the node.
C18_OnlyProvidesContextEdges ==
    \A c \in DOMAIN run.contexts : \A i \in DOMAIN run.contexts[c] :
        \E e \in DOMAIN edges :
            /\ edges[e].source_node_id = run.contexts[c][i].node_id
            /\ edges[e].target_node_id = c
            /\ edges[e].edge_type = "provides_context"

\* C19: the report entry of a node whose provider call returned the reply T
\* is T, whether or not the assistant message could be stored, and the call
\* is not aborted by that node.
C19_PersistFailureKeepsResult ==
    \A n \in Range(run.calls) \ run.failed :
        /\ n \in DOMAIN run.results
        /\ run.results[n] = ReplyText(nruns)

\* The backend keys AIProviderFactory has a provider for.
RegisteredBackends == {"ollama", "groq"}

\* C20: the step of a node whose backend key is not registered ends the call
\* with an error and no report, without a provider call or a result for the
\* node; so no call on a graph with such a node returns a report.
C20_UnsupportedBackendAborts ==
    /\ [][(/\ run.pc = "running"
            /\ run.idx <= Len(run.execution_order)
            /\ nodes[run.execution_order[run.idx]].backend \notin RegisteredBackends
            /\ run' # run) =>
           /\ run'.pc = "aborted"
           /\ run'.error # ""
           /\ run'.calls = run.calls
           /\ run'.results = run.results]_vars
    /\ [](run.pc = "completed" =>
            \A n \in get_by_graph(run.graph_id) : nodes[n].backend \in RegisteredBackends)

\* A call has been aborted at a node with an unregistered backend key after
\* it had executed another node.
C20_Witness ==
    /\ run.pc = "aborted"
    /\ run.error = "Error executing workflow: Unsupported backend"
    /\ run.calls # <<>>
    /\ run.idx <= Len(run.execution_order)
    /\ nodes[run.execution_order[run.idx]].backend \notin RegisteredBackends
    /\ nfaults = 0

\* C21: execute_workflow on a stored graph without nodes does not return an
\* error: it returns the report with the empty execution_order and no results.
C21_EmptyGraphCompletes ==
    (run.pc # "idle" /\ run.graph_id \in graphs /\ get_by_graph(run.graph_id) = {}) =>
    /\ run.pc \in {"running", "completed"}
    /\ run.execution_order = <<>>
    /\ DOMAIN run.results = {}

\* No two calls on one graph are in progress at the same time.
OneRunPerGraph ==
    \A s, t \in 1..MaxThreads :
        (s # t /\ threads[s].run.pc = "running" /\ threads[t].run.pc = "running") =>
        threads[s].run.graph_id # threads[t].run.graph_id

\* The default user messages stored for a node, over all its conversations.
RECURSIVE NodeDefaultMessages(_, _)
NodeDefaultMessages(node_id, i) ==
    IF i > Len(conversations) THEN 0
    ELSE (IF conversations[i].node_id = node_id
          THEN DefaultMessages(conversations[i].messages) ELSE 0)
         + NodeDefaultMessages(node_id, i + 1)

\* No node has two conversations or two default user messages.
NoDoubleWrites ==
    \A n \in DOMAIN nodes :
        /\ Cardinality(get_by_node(n)) <= 1
        /\ NodeDefaultMessages(n, 1) <= 1

\* C22: at most one execute_workflow call per graph is in progress at any
\* time, and the calls started on a store without conversations leave no
\* node with two conversations or two default user messages.
C22_RunsSerializedPerGraph ==
    OneRunPerGraph /\ NoDoubleWrites

\* C23: execute_node(n) leaves the conversation store, and returns the
\* result, that the iteration of execute_workflow for n leaves and records
\* from the same store with the same answers of the store and of the provider
\* (the conversation created when n has none, the default user message stored
\* when the history has no user message, the reply appended), on cyclic
\* graphs as on acyclic ones.
C23_SingleNodeSameAsStep ==
    [][\A n \in ConvNodeIds :
          LegacyExecuteNode(n) =>
          \E parentRows \in Rows(get_parent_nodes(n)),
             first \in FirstConversation(get_parent_nodes(n) \cup {n}),
             response \in [kind : {"content"}, text : {ReplyText(nruns')}]
                             \cup [kind : {"error"}, text : ProviderFailures] :
                LET step == execute_step_of(NoRun, n, parentRows, first, "none", response) IN
                /\ conversations' = step.conversations
                /\ run'.results[n] = step.run.results[n]]_vars

\* The concatenation of a sequence of strings.
RECURSIVE Concat(_)
Concat(seq) == IF seq = <<>> THEN "" ELSE seq[1] \o Concat(Tail(seq))

\* The response has been read to its closing object.
StreamCompleted ==
    /\ stream.pc = "closed"
    /\ stream.lines # <<>>
    /\ stream.lines[Len(stream.lines)].done

C25_DeleteEdgeIdempotent ==
    /\ [][\A e \in CrudEdgeIds :
            ServiceDeleteEdge(e) =>
            /\ reply'.ok
            /\ ~reply'.raised
            /\ e \notin DOMAIN edges'
            /\ \A x \in (DOMAIN edges) \ {e} : x \in DOMAIN edges' /\ edges'[x] = edges[x]
            /\ e \notin DOMAIN edges => edges' = edges]_vars
    /\ [](reply.op = "EdgeService.delete_edge" =>
            EdgeService_delete_edge(reply.id) = [edges |-> edges, ok |-> reply.ok])

\* EdgeService.delete_edge has been called for an id that was not stored,
\* on a store that holds other edges.
C25_Witness ==
    /\ reply.op = "EdgeService.delete_edge"
    /\ reply.edge = NoEdge
    /\ reply.ok
    /\ edges # <<>>

\* The length in edges of the longest path of G that ends at node n, G being
\* acyclic: such a path starts at a root.
RECURSIVE LongestPathTo(_, _)
LongestPathTo(G, n) ==
    LET preds == {p[1] : p \in {q \in G.edges : q[2] = n}}
    IN  IF preds = {} THEN 0
        ELSE 1 + Max({LongestPathTo(G, m) : m \in preds})

\* C26: get_node_depth returns -1 for a node that is not stored, and for a
\* node of an acyclic graph the length of the longest path from a root to the
\* node, which is 0 for a root.
C26_DepthIsLongestPath ==
    analysis.op = "get_node_depth" =>
        IF analysis.node_id \notin DOMAIN nodes
        THEN analysis.depth = -1
        ELSE ~HasDirectedCycle(nodes[analysis.node_id].graph_id) =>
                analysis.depth =
                    LongestPathTo(build_networkx_graph(nodes[analysis.node_id].graph_id),
                                  analysis.node_id)

\* C27: the execution order of a call on an acyclic graph holds every node of
\* the graph exactly once and no id of a node outside the graph.
C27_OrderIsPermutationOfGraph ==
    (run.pc \in {"running", "completed"} /\ ~HasDirectedCycle(run.graph_id)) =>
    /\ Range(run.execution_order) = get_by_graph(run.graph_id)
    /\ Len(run.execution_order) = Cardinality(get_by_graph(run.graph_id))

\* C28: when a call has returned an error instead of a report, the
\* conversation store is the one the call started from.
C28_AbortLeavesStoreUnchanged ==
    run.pc = "aborted" => conversations = runAtStart

IsPrefix(s, t) == Len(s) <= Len(t) /\ SubSeq(t, 1, Len(s)) = s

\* Every conversation of the store before is in the store after, with the
\* same node and with its messages as the first messages.
AppendOnly(before, after) ==
    /\ Len(before) <= Len(after)
    /\ \A c \in DOMAIN before :
        /\ after[c].node_id = before[c].node_id
        /\ IsPrefix(before[c].messages, after[c].messages)

\* The messages of a role in the conversations of a node.
RECURSIVE RoleCount(_, _, _, _)
RoleCount(convs, node_id, role, i) ==
    IF i > Len(convs) THEN 0
    ELSE (IF convs[i].node_id = node_id
          THEN Cardinality({j \in DOMAIN convs[i].messages :
                               convs[i].messages[j].role = role})
          ELSE 0)
         + RoleCount(convs, node_id, role, i + 1)

\* C29: a step of an execute_workflow call leaves the Graph, Node and Edge
\* rows as they are and only appends to the conversation store; throughout
\* the call the store it started from is kept as a prefix, and every node has
\* gained at most one user message and at most one assistant message.
C29_ExecuteAppendsOnly ==
    /\ [][run.pc = "running" =>
            /\ graphs' = graphs /\ nodes' = nodes /\ edges' = edges
            /\ AppendOnly(conversations, conversations')]_vars
    /\ [](run.pc = "running" =>
            /\ AppendOnly(runAtStart, conversations)
            /\ \A n \in DOMAIN nodes : \A role \in {"user", "assistant"} :
                  RoleCount(conversations, n, role, 1)
                      <= RoleCount(runAtStart, n, role, 1) + 1)

\* A call has gone through its nodes: it has appended to a conversation that
\* held messages when it started, and it has created a conversation.
C29_Witness ==
    /\ run.pc = "running"
    /\ run.idx > Len(run.execution_order)
    /\ Len(conversations) > Len(runAtStart)
    /\ \E c \in DOMAIN runAtStart :
        /\ runAtStart[c].messages # <<>>
        /\ Len(conversations[c].messages) > Len(runAtStart[c].messages)

\* C30: a create_edge call for two stored nodes s and t returns an edge from
\* s to t, and every stored edge is stored under the id made of its own source
\* and target, so that edges with different (source, target) pairs are
\* different rows.
C30_EdgeIdIdentifiesEndpoints ==
    /\ [](\A x \in DOMAIN edges :
            x = edges[x].source_node_id \o "-" \o edges[x].target_node_id)
    /\ [][\A s, t \in CrudNodeIds, edge_type \in EdgeTypes :
            (/\ CreateEdge(s, t, edge_type)
             /\ s \in DOMAIN nodes
             /\ t \in DOMAIN nodes) =>
            /\ reply'.edge.source_node_id = s
            /\ reply'.edge.target_node_id = t]_vars

====
